---- MODULE Spec2Model ----
(***************************************************************************)
(* The profile-update HTTP handler (PUT/PATCH, multipart form, optional    *)
(* avatar upload, one dynamically built UPDATE) and the image-store        *)
(* adapter (uploadImage / deleteImage / extractPublicIdFromUrl).           *)
(*                                                                         *)
(* Strings are sequences of symbols.  The literal 'Bearer ' and the        *)
(* literal 'upload' are single symbols; every other symbol is a character. *)
(* `undefined` is the one-symbol sequence Undefined, whose symbol occurs   *)
(* in no string.                                                           *)
(***************************************************************************)
EXTENDS Integers, Sequences, FiniteSets, TLC

VARIABLES
    pc,         \* position of the handler: the await it is suspended on
    req,        \* the request: method, query.wallet, headers.authorization
    fields,     \* formidable fields: name -> first value, or Undefined
    files,      \* formidable files: the avatar part
    wallet,     \* the resolved identity (handler local `wallet`)
    userData,   \* handler local `userData`: a function on the keys it holds
    res,        \* the response: status and body
    db,         \* table `users`: wallet -> row
    tmp,        \* transient files formidable left on disk
    assets,     \* public ids held by the remote image store
    sql,        \* statements handed to pool.query for the UPDATE, in order
    log,        \* what the handler did and saw, in order
    img,        \* the image-store adapter's deleteImage call
    peer        \* another request of the same handler, running concurrently

vars == <<pc, req, fields, files, wallet, userData, res, db, tmp, assets, sql, log, img, peer>>

handlerVars == <<pc, req, fields, files, wallet, userData, res, db, tmp, assets, sql, log>>

(***************************************************************************)
(* Bounds.                                                                 *)
(***************************************************************************)
MaxHdrLen == 2      \* longest Authorization header value, in symbols
MaxIdSegs == 2      \* most path segments of a public id below its folder

(***************************************************************************)
(* Strings.                                                                *)
(***************************************************************************)
Undefined == <<"#undefined">>
EmptyStr == <<>>
BEARER == "Bearer "
UPLOAD == "upload"

\* JavaScript truthiness of a string-or-undefined value.
Truthy(s) == s # Undefined /\ s # EmptyStr

SeqsUpTo(S, n) == UNION {[1..k -> S] : k \in 0..n}

\* Index of the first occurrence of symbol c in s, 0 when there is none.
IndexOf(s, c) ==
    IF \E i \in 1..Len(s) : s[i] = c
    THEN CHOOSE i \in 1..Len(s) : s[i] = c /\ \A j \in 1..(i - 1) : s[j] # c
    ELSE 0

\* Index of the last occurrence of symbol c in s, 0 when there is none.
LastIndexOf(s, c) ==
    IF \E i \in 1..Len(s) : s[i] = c
    THEN CHOOSE i \in 1..Len(s) : s[i] = c /\ \A j \in (i + 1)..Len(s) : s[j] # c
    ELSE 0

\* String.prototype.replace(pattern, '') with a string pattern: the first
\* occurrence of the pattern, wherever it is, is removed.
ReplaceFirst(s, c) ==
    IF IndexOf(s, c) = 0 THEN s
    ELSE SubSeq(s, 1, IndexOf(s, c) - 1) \o SubSeq(s, IndexOf(s, c) + 1, Len(s))

\* a || b on string-or-undefined operands.
OrElse(a, b) == IF Truthy(a) THEN a ELSE b

\* req.headers.authorization?.replace('Bearer ', '')
HeaderIdentity(h) == IF h = Undefined THEN Undefined ELSE ReplaceFirst(h, BEARER)

\* The handler's `wallet` expression: query, then header, then form field.
ResolveWallet(q, h, f) == OrElse(q, OrElse(HeaderIdentity(h), f))

(***************************************************************************)
(* JSON, over the texts a socialLinks field takes here.                    *)
(***************************************************************************)
JsonError == <<"@error">>
JsonObject == <<"@object">>
JsonEmptyArray == <<"@array">>
JsonLinkArray == <<"@array", "{title,url}">>

TextBad == <<"{bad">>
TextObject == <<"{}">>
TextEmptyArray == <<"[]">>
TextLinkArray == <<"[{title,url}]">>
TextLinkArraySpaced == <<"[ {title,url} ]">>

\* JSON.parse: the decoded value, or JsonError where it throws SyntaxError.
JSONParse(t) ==
    CASE t = TextObject -> JsonObject
      [] t = TextEmptyArray -> JsonEmptyArray
      [] t = TextLinkArray -> JsonLinkArray
      [] t = TextLinkArraySpaced -> JsonLinkArray
      [] OTHER -> JsonError

IsArray(v) == Len(v) > 0 /\ v[1] = "@array"

\* JSON.stringify: the canonical text of a value.
JSONStringify(v) ==
    CASE v = JsonObject -> TextObject
      [] v = JsonEmptyArray -> TextEmptyArray
      [] v = JsonLinkArray -> TextLinkArray
      [] OTHER -> Undefined

(***************************************************************************)
(* The image store's URLs.                                                 *)
(***************************************************************************)
Origin == "https://res.cloudinary.com"
CloudName == <<"c">>
Folder == <<"user_avatars">>

\* Array.prototype.join(sep) on a list of strings.
RECURSIVE Join(_, _)
Join(parts, sep) ==
    IF Len(parts) = 0 THEN <<>>
    ELSE IF Len(parts) = 1 THEN parts[1]
    ELSE parts[1] \o <<sep>> \o Join(Tail(parts), sep)

\* String.prototype.split(sep): always at least one part.
RECURSIVE Split(_, _)
Split(s, sep) ==
    IF IndexOf(s, sep) = 0 THEN <<s>>
    ELSE <<SubSeq(s, 1, IndexOf(s, sep) - 1)>>
             \o Split(SubSeq(s, IndexOf(s, sep) + 1, Len(s)), sep)

\* The secure_url the store returns for an asset it stored under publicId.
SecureUrl(version, publicId, format) ==
    <<Origin, "/">> \o CloudName \o <<"/", "image", "/", UPLOAD, "/">> \o version
        \o <<"/">> \o publicId \o <<".">> \o format

(***************************************************************************)
(* Table `users` and the Partial Update Builder.                           *)
(***************************************************************************)
WalletA == <<"a">>
WalletB == <<"b">>

OldText == <<"o">>
OldTime == <<"t0">>
Now == <<"t1">>     \* CURRENT_TIMESTAMP of the statement

Columns == {"id", "wallet", "username", "email", "avatar", "bio", "streamkey",
            "socialLinks", "updated_at"}

InitRow(w) ==
    [id |-> w, wallet |-> w, username |-> OldText, email |-> OldText,
     avatar |-> OldText, bio |-> OldText, streamkey |-> OldText,
     socialLinks |-> TextEmptyArray, updated_at |-> OldTime]

InitDb == [w \in {WalletA, WalletB} |-> InitRow(w)]

\* userData.<key> !== undefined
Has(ud, key) == key \in DOMAIN ud /\ ud[key] # Undefined

\* The column an updateUser clause names for a userData key.
ColumnOf(key) == IF key = "streamKey" THEN "streamkey" ELSE key

\* The value updateUser binds for a key: socialLinks goes through stringify.
BoundValue(ud, key) ==
    IF key = "socialLinks" THEN JSONStringify(ud[key]) ELSE ud[key]

\* Mutant: the placeholder index is used but not advanced.
AddClauseSameIndex(st, ud, key) ==
    IF Has(ud, key)
    THEN [setClauses |-> Append(st.setClauses,
                                [col |-> ColumnOf(key), param |-> st.paramIndex]),
          values |-> Append(st.values, BoundValue(ud, key)),
          paramIndex |-> st.paramIndex]
    ELSE st

\* One `if (userData.<key> !== undefined) { push clause; push value }`.
AddClause(st, ud, key) ==
    IF Has(ud, key)
    THEN [setClauses |-> Append(st.setClauses,
                                [col |-> ColumnOf(key), param |-> st.paramIndex]),
          values |-> Append(st.values, BoundValue(ud, key)),
          paramIndex |-> st.paramIndex + 1]
    ELSE st

\* The statement updateUser builds: clauses in the order of its six ifs, then
\* the timestamp clause, which binds no parameter (param 0).
UpdateStatement(w, ud) ==
    LET s0 == [setClauses |-> <<>>, values |-> <<w>>, paramIndex |-> 2]
        s1 == AddClause(s0, ud, "username")
        s2 == AddClause(s1, ud, "email")
        s3 == AddClause(s2, ud, "avatar")
        s4 == AddClause(s3, ud, "bio")
        s5 == AddClause(s4, ud, "streamKey")
        s6 == AddClause(s5, ud, "socialLinks")
    IN  [setClauses |-> Append(s6.setClauses, [col |-> "updated_at", param |-> 0]),
         values |-> s6.values]

\* The columns a statement assigns.
AssignedColumns(stmt) == {stmt.setClauses[i].col : i \in 1..Len(stmt.setClauses)}

\* The row after the SET list is applied to it.
ApplySet(row, stmt) ==
    [c \in DOMAIN row |->
        IF c \in AssignedColumns(stmt)
        THEN LET i == CHOOSE i \in 1..Len(stmt.setClauses) : stmt.setClauses[i].col = c
             IN  IF stmt.setClauses[i].param = 0 THEN Now
                 ELSE stmt.values[stmt.setClauses[i].param]
        ELSE row[c]]

\* UPDATE users SET ... WHERE wallet = $1: the table afterwards.
ExecUpdate(table, stmt) ==
    [w \in DOMAIN table |->
        IF table[w].wallet = stmt.values[1] THEN ApplySet(table[w], stmt) ELSE table[w]]

\* RETURNING ...: the rows the statement returns.
Returning(table, stmt) ==
    IF stmt.values[1] \in DOMAIN table
    THEN <<ApplySet(table[stmt.values[1]], stmt)>>
    ELSE <<>>

(***************************************************************************)
(* Requests.                                                               *)
(***************************************************************************)
Methods == {"PUT", "PATCH", "GET"}
QueryValues == {Undefined, EmptyStr, WalletA}
HeaderValues == {Undefined} \cup SeqsUpTo({BEARER, "a"}, MaxHdrLen)
FormWalletValues == {Undefined, EmptyStr, WalletB}
TextValues == {Undefined, EmptyStr, <<"x">>}
SocialTexts == {Undefined, EmptyStr, TextBad, TextObject, TextEmptyArray,
                TextLinkArraySpaced}

ScalarKeys == {"username", "email", "bio", "streamKey"}

Requests == [method : Methods, query : QueryValues, authorization : HeaderValues]

\* What form.parse hands back as `fields`: each name's first value
\* (fields.<name>?.[0]), Undefined for a name the form does not carry.
\* `nickname` is a field name the handler does not know.
FormFields ==
    [wallet : FormWalletValues, username : TextValues, email : TextValues,
     bio : TextValues, streamKey : TextValues, socialLinks : SocialTexts,
     nickname : {Undefined, <<"x">>}]

NoFields ==
    [wallet |-> Undefined, username |-> Undefined, email |-> Undefined,
     bio |-> Undefined, streamKey |-> Undefined, socialLinks |-> Undefined,
     nickname |-> Undefined]

\* files.avatar: no part, one file object, or an array of file objects
\* (multiples: true).  items are the filepaths formidable wrote.
NoAvatar == [isArray |-> FALSE, items |-> <<>>]
AvatarParts ==
    {NoAvatar, [isArray |-> FALSE, items |-> <<"f1">>],
     [isArray |-> TRUE, items |-> <<"f1", "f2">>]}

HasAvatar(f) == Len(f.avatar.items) > 0

\* Array.isArray(files.avatar) ? files.avatar[0] : files.avatar, then .filepath
AvatarFilePath(f) == Head(f.avatar.items)

EmptyUserData == [k \in {} |-> Undefined]

WithKey(ud, key, v) == [k \in DOMAIN ud \cup {key} |-> IF k = key THEN v ELSE ud[k]]

\* Mutant: every field of the form that has a value is copied, whatever its name.
ScalarFieldsAnyName(f) ==
    [k \in {k \in DOMAIN f \ {"wallet", "socialLinks"} : Truthy(f[k])} |-> f[k]]

\* Mutant: the wallet field is copied into userData like the text fields.
ScalarFieldsWithWallet(f) ==
    [k \in {k \in ScalarKeys \cup {"wallet"} : Truthy(f[k])} |-> f[k]]

\* if (fields.<k>?.[0]) userData.<k> = fields.<k>[0], for the four text fields.
ScalarFields(f) == [k \in {k \in ScalarKeys : Truthy(f[k])} |-> f[k]]

\* Mutant: a text JSON.parse rejects is skipped like a value that is no array.
SocialLinksStepLenient(ud, text) ==
    IF ~Truthy(text) \/ JSONParse(text) = JsonError THEN [reject |-> FALSE, ud |-> ud]
    ELSE IF IsArray(JSONParse(text))
         THEN [reject |-> FALSE, ud |-> WithKey(ud, "socialLinks", JSONParse(text))]
         ELSE [reject |-> FALSE, ud |-> ud]

\* The socialLinks block: rejected when JSON.parse throws; the key is set only
\* when the decoded value is an array.
SocialLinksStep(ud, text) ==
    IF ~Truthy(text) THEN [reject |-> FALSE, ud |-> ud]
    ELSE IF JSONParse(text) = JsonError THEN [reject |-> TRUE, ud |-> ud]
    ELSE IF IsArray(JSONParse(text))
         THEN [reject |-> FALSE, ud |-> WithKey(ud, "socialLinks", JSONParse(text))]
         ELSE [reject |-> FALSE, ud |-> ud]

\* Object.keys(userData).length === 0
NoKeys(ud) == DOMAIN ud = {}

\* SELECT EXISTS(SELECT 1 FROM users WHERE wallet = $1)
UserExists(table, w) == \E k \in DOMAIN table : table[k].wallet = w

NoResponse == [status |-> 0, error |-> "", user |-> <<>>]

IdleImage == [pc |-> "idle", url |-> <<>>, stored |-> <<>>, destroyed |-> <<>>, error |-> ""]

\* The concurrent request before it arrives, and when there is none.
NoPeer ==
    [pc |-> "off", wallet |-> Undefined, fields |-> NoFields, userData |-> EmptyUserData,
     sql |-> <<>>, res |-> NoResponse]

(***************************************************************************)
(* The handler, one action per stretch of code between two awaits.         *)
(***************************************************************************)
Init ==
    /\ pc = "start"
    /\ req \in Requests
    /\ fields = NoFields
    /\ files = [avatar |-> NoAvatar]
    /\ wallet = Undefined
    /\ userData = EmptyUserData
    /\ res = NoResponse
    /\ db = InitDb
    /\ tmp = {}
    /\ assets = {}
    /\ sql = <<>>
    /\ log = <<>>
    /\ img = IdleImage
    /\ peer = NoPeer

\* res.status(status).json(...) and return, after the side effects `events`.
Respond(status, error, rows, events) ==
    /\ res' = [status |-> status, error |-> error, user |-> rows]
    /\ pc' = "done"
    /\ log' = log \o events \o <<"respond">>

\* Mutant: the form is parsed first, whatever the method.
MethodCheckAfterParse ==
    /\ pc = "start"
    /\ pc' = "parsing"
    /\ log' = Append(log, "parse")
    /\ UNCHANGED <<req, fields, files, wallet, userData, res, db, tmp, assets, sql, img, peer>>

\* The method check, then the call of parseFormData.
MethodCheck ==
    /\ pc = "start"
    /\ IF req.method # "PUT" /\ req.method # "PATCH"
       THEN Respond(405, "Method not allowed", <<>>, <<>>)
       ELSE /\ pc' = "parsing"
            /\ log' = Append(log, "parse")
            /\ res' = res
    /\ UNCHANGED <<req, fields, files, wallet, userData, db, tmp, assets, sql, img, peer>>

\* form.parse reports an error: the outer catch answers 500.
ParseFails ==
    /\ pc = "parsing"
    /\ Respond(500, "Failed to update user", <<>>, <<>>)
    /\ UNCHANGED <<req, fields, files, wallet, userData, db, tmp, assets, sql, img, peer>>

\* form.parse succeeds with one of the forms F and avatar parts A; the
\* identity is resolved; checkUserExists is called.
ParseDoneWith(F, A) ==
    /\ pc = "parsing"
    /\ \E f \in F, a \in A :
        /\ fields' = f
        /\ files' = [avatar |-> a]
        /\ tmp' = tmp \cup {a.items[i] : i \in 1..Len(a.items)}
        /\ wallet' = ResolveWallet(req.query, req.authorization, f.wallet)
        /\ IF ~Truthy(wallet')
           THEN Respond(400, "Wallet address is required", <<>>, <<"parsed">>)
           ELSE /\ pc' = "checking"
                /\ log' = log \o <<"parsed", "SELECT">>
                /\ res' = res
    /\ UNCHANGED <<req, userData, db, assets, sql, img, peer>>

ParseDone == ParseDoneWith(FormFields, AvatarParts)

\* The existence query fails: the outer catch answers 500.
ExistsFails ==
    /\ pc = "checking"
    /\ Respond(500, "Failed to update user", <<>>, <<>>)
    /\ UNCHANGED <<req, fields, files, wallet, userData, db, tmp, assets, sql, img, peer>>

\* if (Object.keys(userData).length === 0) 400; else updateUser hands its
\* statement to pool.query.
EnsureAndPersist(ud, events) ==
    /\ userData' = ud
    /\ IF NoKeys(ud)
       THEN /\ Respond(400, "No update data provided", <<>>, events)
            /\ sql' = sql
       ELSE /\ pc' = "updating"
            /\ sql' = Append(sql, UpdateStatement(wallet, ud))
            /\ log' = log \o events \o <<"UPDATE">>
            /\ res' = res

\* Mutant: the socialLinks text is decoded before the existence answer is
\* looked at.
ExistsDoneFieldsFirst ==
    /\ pc = "checking"
    /\ LET step == SocialLinksStep(ScalarFields(fields), fields.socialLinks)
       IN  IF step.reject
           THEN /\ Respond(400, "Invalid social links format", <<>>,
                           IF UserExists(db, wallet) THEN <<"found">> ELSE <<"notFound">>)
                /\ userData' = step.ud
                /\ sql' = sql
           ELSE IF ~UserExists(db, wallet)
           THEN /\ Respond(404, "User not found", <<>>, <<"notFound">>)
                /\ UNCHANGED <<userData, sql>>
           ELSE IF HasAvatar(files)
           THEN /\ pc' = "uploading"
                /\ userData' = step.ud
                /\ log' = log \o <<"found", "uploadImage">>
                /\ UNCHANGED <<res, sql>>
           ELSE EnsureAndPersist(step.ud, <<"found">>)
    /\ UNCHANGED <<req, fields, files, wallet, db, tmp, assets, img, peer>>

\* The existence query answers: 404, or the field set is built, and then the
\* upload is started or the update is issued.
ExistsDone ==
    /\ pc = "checking"
    /\ IF ~UserExists(db, wallet)
       THEN /\ Respond(404, "User not found", <<>>, <<"notFound">>)
            /\ UNCHANGED <<userData, sql>>
       ELSE LET step == SocialLinksStep(ScalarFields(fields), fields.socialLinks)
            IN  IF step.reject
                THEN /\ Respond(400, "Invalid social links format", <<>>, <<"found">>)
                     /\ userData' = step.ud
                     /\ sql' = sql
                ELSE IF HasAvatar(files)
                THEN /\ pc' = "uploading"
                     /\ userData' = step.ud
                     /\ log' = log \o <<"found", "uploadImage">>
                     /\ UNCHANGED <<res, sql>>
                ELSE EnsureAndPersist(step.ud, <<"found">>)
    /\ UNCHANGED <<req, fields, files, wallet, db, tmp, assets, img, peer>>

\* The statement handed to pool.query by updateUser.
IssuedStatement == sql[Len(sql)]

\* The public id the store gives an asset uploaded with folder "user_avatars".
StoredPublicId(name) == Folder \o <<"/">> \o name

\* The names the store generates, and the version and format of its URLs.
AssetNames == {<<"n">>}
AssetVersion == <<"v1">>
AssetFormat == <<"jpg">>

\* Mutant: the inner catch logs the error and falls through to the update.
UploadFailsContinue ==
    /\ pc = "uploading"
    /\ EnsureAndPersist(userData, <<"uploadFailed">>)
    /\ UNCHANGED <<req, fields, files, wallet, db, tmp, assets, img, peer>>

\* uploadImage throws (readFileSync fails, or the store reports an error):
\* the inner catch answers 500 and returns; the file is left where it is.
UploadFails ==
    /\ pc = "uploading"
    /\ Respond(500, "Failed to upload avatar", <<>>, <<"uploadFailed">>)
    /\ UNCHANGED <<req, fields, files, wallet, userData, db, tmp, assets, sql, img, peer>>

\* uploadImage resolves, userData.avatar is set, fs.unlinkSync removes the
\* file, and the update is issued.
UploadDone ==
    /\ pc = "uploading"
    /\ \E name \in AssetNames :
        /\ assets' = assets \cup {StoredPublicId(name)}
        /\ tmp' = tmp \ {AvatarFilePath(files)}
        /\ EnsureAndPersist(
               WithKey(userData, "avatar",
                       SecureUrl(AssetVersion, StoredPublicId(name), AssetFormat)),
               <<"uploaded", "unlink">>)
    /\ UNCHANGED <<req, fields, files, wallet, db, img, peer>>

\* uploadImage resolves and userData.avatar is set, but fs.unlinkSync throws:
\* the same inner catch answers 500.
UnlinkFails ==
    /\ pc = "uploading"
    /\ \E name \in AssetNames :
        /\ assets' = assets \cup {StoredPublicId(name)}
        /\ userData' = WithKey(userData, "avatar",
                          SecureUrl(AssetVersion, StoredPublicId(name), AssetFormat))
    /\ Respond(500, "Failed to upload avatar", <<>>, <<"uploaded", "unlinkFailed">>)
    /\ UNCHANGED <<req, fields, files, wallet, db, tmp, sql, img, peer>>

\* Mutant: a rejected statement is handed to pool.query once more.
UpdateFailsRetry ==
    /\ pc = "updating"
    /\ sql' = Append(sql, IssuedStatement)
    /\ log' = Append(log, "UPDATE")
    /\ UNCHANGED <<pc, req, fields, files, wallet, userData, res, db, tmp, assets, img, peer>>

\* pool.query rejects: the outer catch answers 500; the table is as it was.
UpdateFails ==
    /\ pc = "updating"
    /\ Respond(500, "Failed to update user", <<>>, <<>>)
    /\ UNCHANGED <<req, fields, files, wallet, userData, db, tmp, assets, sql, img, peer>>

\* pool.query resolves: the statement has run, and rows[0] is sent with 200.
UpdateDone ==
    /\ pc = "updating"
    /\ db' = ExecUpdate(db, IssuedStatement)
    /\ Respond(200, "", Returning(db, IssuedStatement), <<>>)
    /\ UNCHANGED <<req, fields, files, wallet, userData, tmp, assets, sql, img, peer>>

Next ==
    \/ MethodCheck
    \/ ParseFails
    \/ ParseDone
    \/ ExistsFails
    \/ ExistsDone
    \/ UploadFails
    \/ UploadDone
    \/ UnlinkFails
    \/ UpdateFails
    \/ UpdateDone

Spec == Init /\ [][Next]_vars

(***************************************************************************)
(* The image-store adapter: deleteImage and extractPublicIdFromUrl.        *)
(***************************************************************************)
Null == <<"#null">>

\* new URL(url) accepts the string; anything else makes it throw.
IsUrl(url) == Len(url) > 0 /\ url[1] = Origin

\* new URL(url).pathname: what follows the origin, up to a '?'; "/" if empty.
Pathname(url) ==
    LET rest == Tail(url)
        path == IF IndexOf(rest, "?") = 0 THEN rest
                ELSE SubSeq(rest, 1, IndexOf(rest, "?") - 1)
    IN  IF path = <<>> THEN <<"/">> ELSE path

\* pathParts.findIndex(part => part === 'upload'), counted from 1; 0 for -1.
FindUpload(parts) ==
    IF \E i \in 1..Len(parts) : parts[i] = <<UPLOAD>>
    THEN CHOOSE i \in 1..Len(parts) :
            parts[i] = <<UPLOAD>> /\ \A j \in 1..(i - 1) : parts[j] # <<UPLOAD>>
    ELSE 0

\* Mutant: the name is cut at its first '.', not its last.
WithoutExtensionFirstDot(part) == SubSeq(part, 1, IndexOf(part, ".") - 1)

\* lastPart.substring(0, lastPart.lastIndexOf('.')): with no '.', the index
\* is -1, substring takes it as 0, and the result is the empty string.
WithoutExtension(part) == SubSeq(part, 1, LastIndexOf(part, ".") - 1)

\* extractPublicIdFromUrl: Null where it returns null.
ExtractPublicIdFromUrl(url) ==
    IF ~IsUrl(url) THEN Null
    ELSE LET pathParts == Split(Pathname(url), "/")
             uploadIndex == FindUpload(pathParts)
         IN  IF uploadIndex = 0 \/ uploadIndex + 1 >= Len(pathParts) THEN Null
             ELSE LET publicIdParts == SubSeq(pathParts, uploadIndex + 2, Len(pathParts))
                      n == Len(publicIdParts)
                  IN  Join([publicIdParts EXCEPT ![n] = WithoutExtension(publicIdParts[n])],
                           "/")

\* !publicId
Falsy(p) == p = Null \/ p = EmptyStr

\* Public ids the store holds below its folder: up to MaxIdSegs segments, the
\* last one the asset's name.  A name may hold a '.', a segment may be 'upload'.
IdSegments == {<<"n">>, <<"n", ".", "m">>, <<UPLOAD>>}
StoredIds ==
    {Join(<<Folder>> \o segs, "/") : segs \in SeqsUpTo(IdSegments, MaxIdSegs) \ {<<>>}}
Versions == {<<"v1">>, <<"v2">>}
Formats == {<<"jpg">>, <<"png">>}

\* Other strings handed to deleteImage: paths over a few segments, and one
\* string that is no URL.
PathSegments == {<<UPLOAD>>, <<"v1">>, <<"n", ".", "jpg">>, <<"n">>}
OtherUrls ==
    {<<Origin, "/">> \o Join(segs, "/") : segs \in SeqsUpTo(PathSegments, 3)}
        \cup {<<"not a url">>}

\* deleteImage(imageUrl) is called: `stored` is the store's own id of the
\* asset when the URL is one uploadImage returned, else empty.
ImageCalls ==
    {[pc |-> "called", url |-> SecureUrl(v, id, f), stored |-> <<id>>,
      destroyed |-> <<>>, error |-> ""] : v \in Versions, id \in StoredIds, f \in Formats}
    \cup {[pc |-> "called", url |-> u, stored |-> <<>>, destroyed |-> <<>>, error |-> ""]
            : u \in OtherUrls}

InitImage ==
    /\ pc = "start"
    /\ req = [method |-> "PUT", query |-> Undefined, authorization |-> Undefined]
    /\ fields = NoFields
    /\ files = [avatar |-> NoAvatar]
    /\ wallet = Undefined
    /\ userData = EmptyUserData
    /\ res = NoResponse
    /\ db = InitDb
    /\ tmp = {}
    /\ assets = {}
    /\ sql = <<>>
    /\ log = <<>>
    /\ img \in ImageCalls
    /\ peer = NoPeer

\* No public id: 'Invalid Cloudinary URL' is thrown inside the try, so the
\* catch rethrows it as 'Failed to delete image from Cloudinary'.
DeleteInvalid ==
    /\ img.pc = "called"
    /\ Falsy(ExtractPublicIdFromUrl(img.url))
    /\ img' = [img EXCEPT !.pc = "failed",
                          !.error = "Failed to delete image from Cloudinary"]
    /\ UNCHANGED <<handlerVars, peer>>

\* cloudinary.uploader.destroy(publicId) is called.
DeleteCall ==
    /\ img.pc = "called"
    /\ ~Falsy(ExtractPublicIdFromUrl(img.url))
    /\ img' = [img EXCEPT !.pc = "destroying",
                          !.destroyed = <<ExtractPublicIdFromUrl(img.url)>>]
    /\ UNCHANGED <<handlerVars, peer>>

\* destroy resolves.
DestroyDone ==
    /\ img.pc = "destroying"
    /\ img' = [img EXCEPT !.pc = "done"]
    /\ UNCHANGED <<handlerVars, peer>>

\* destroy rejects: the catch rethrows.
DestroyFails ==
    /\ img.pc = "destroying"
    /\ img' = [img EXCEPT !.pc = "failed",
                          !.error = "Failed to delete image from Cloudinary"]
    /\ UNCHANGED <<handlerVars, peer>>

NextImage ==
    \/ DeleteInvalid
    \/ DeleteCall
    \/ DestroyDone
    \/ DestroyFails

SpecImage == InitImage /\ [][NextImage]_vars

(***************************************************************************)
(* Two requests at once.  The second request (`peer`) runs the same        *)
(* handler on a form without file parts, and its identity comes from the   *)
(* query; the table is shared, and another client of the database may      *)
(* remove a row at any time.                                               *)
(***************************************************************************)
ConcRequests == [method : {"PUT"}, query : {Undefined, WalletA}, authorization : {Undefined}]

ConcFormFields ==
    [wallet : {Undefined, WalletB}, username : {Undefined, <<"x">>}, email : {Undefined},
     bio : {Undefined, <<"x">>}, streamKey : {Undefined},
     socialLinks : {Undefined, TextLinkArraySpaced}, nickname : {Undefined}]

PeerQueries == {WalletA, WalletB}

PeerFormFields ==
    [wallet : {Undefined}, username : {Undefined, <<"y">>}, email : {Undefined},
     bio : {Undefined, <<"y">>}, streamKey : {Undefined},
     socialLinks : {Undefined, TextEmptyArray}, nickname : {Undefined}]

InitConc ==
    /\ pc = "start"
    /\ req \in ConcRequests
    /\ fields = NoFields
    /\ files = [avatar |-> NoAvatar]
    /\ wallet = Undefined
    /\ userData = EmptyUserData
    /\ res = NoResponse
    /\ db = InitDb
    /\ tmp = {}
    /\ assets = {}
    /\ sql = <<>>
    /\ log = <<>>
    /\ img = IdleImage
    /\ peer = [NoPeer EXCEPT !.pc = "idle"]

ParseDoneConc == ParseDoneWith(ConcFormFields, {NoAvatar})

PeerResponse(status, error, rows) == [status |-> status, error |-> error, user |-> rows]

\* The peer's form is parsed, its identity resolved, checkUserExists called.
PeerParseDone ==
    /\ peer.pc = "idle"
    /\ \E q \in PeerQueries, f \in PeerFormFields :
        peer' = [peer EXCEPT !.pc = "checking",
                             !.wallet = ResolveWallet(q, Undefined, f.wallet),
                             !.fields = f]
    /\ UNCHANGED <<handlerVars, img>>

\* The peer's existence query answers: 404, 400, or its update is issued.
PeerExistsDone ==
    /\ peer.pc = "checking"
    /\ LET step == SocialLinksStep(ScalarFields(peer.fields), peer.fields.socialLinks)
       IN  peer' =
             IF ~UserExists(db, peer.wallet)
             THEN [peer EXCEPT !.pc = "done",
                               !.res = PeerResponse(404, "User not found", <<>>)]
             ELSE IF step.reject
             THEN [peer EXCEPT !.pc = "done",
                               !.res = PeerResponse(400, "Invalid social links format", <<>>)]
             ELSE IF NoKeys(step.ud)
             THEN [peer EXCEPT !.pc = "done", !.userData = step.ud,
                               !.res = PeerResponse(400, "No update data provided", <<>>)]
             ELSE [peer EXCEPT !.pc = "updating", !.userData = step.ud,
                               !.sql = <<UpdateStatement(peer.wallet, step.ud)>>]
    /\ UNCHANGED <<handlerVars, img>>

\* The peer's pool.query rejects.
PeerUpdateFails ==
    /\ peer.pc = "updating"
    /\ peer' = [peer EXCEPT !.pc = "done",
                            !.res = PeerResponse(500, "Failed to update user", <<>>)]
    /\ UNCHANGED <<handlerVars, img>>

\* Mutant: the peer's statement is applied to the rows as they were when the
\* requests began, and the result replaces the table.
PeerUpdateDoneStale ==
    /\ peer.pc = "updating"
    /\ db' = ExecUpdate([w \in DOMAIN db |-> InitDb[w]], peer.sql[1])
    /\ peer' = [peer EXCEPT !.pc = "done",
                            !.res = PeerResponse(200, "", Returning(db, peer.sql[1]))]
    /\ UNCHANGED <<pc, req, fields, files, wallet, userData, res, tmp, assets, sql, log, img>>

\* The peer's statement runs, and rows[0] is sent with 200.
PeerUpdateDone ==
    /\ peer.pc = "updating"
    /\ db' = ExecUpdate(db, peer.sql[1])
    /\ peer' = [peer EXCEPT !.pc = "done",
                            !.res = PeerResponse(200, "", Returning(db, peer.sql[1]))]
    /\ UNCHANGED <<pc, req, fields, files, wallet, userData, res, tmp, assets, sql, log, img>>

\* Another client of the database removes a profile row.
RowDeleted ==
    /\ \E w \in DOMAIN db : db' = [k \in DOMAIN db \ {w} |-> db[k]]
    /\ UNCHANGED <<pc, req, fields, files, wallet, userData, res, tmp, assets, sql, log, img,
                   peer>>

NextConc ==
    \/ MethodCheck
    \/ ParseFails
    \/ ParseDoneConc
    \/ ExistsFails
    \/ ExistsDone
    \/ UpdateFails
    \/ UpdateDone
    \/ PeerParseDone
    \/ PeerExistsDone
    \/ PeerUpdateFails
    \/ PeerUpdateDone
    \/ RowDeleted

SpecConc == InitConc /\ [][NextConc]_vars

(***************************************************************************)
(* updateUser on its own: called with any field mapping, also one the      *)
(* handler's own checks would not let through.                             *)
(***************************************************************************)
UpdatableKeys == <<"username", "email", "avatar", "bio", "streamKey", "socialLinks">>

\* The values a key of the mapping takes: undefined, or a value of its type.
MappingValues(key) ==
    IF key = "socialLinks" THEN {Undefined, JsonEmptyArray, JsonLinkArray}
    ELSE IF key = "avatar"
    THEN {Undefined, SecureUrl(AssetVersion, StoredPublicId(<<"n">>), AssetFormat)}
    ELSE {Undefined, <<"x">>}

KeySet == {UpdatableKeys[i] : i \in 1..Len(UpdatableKeys)}

Mappings ==
    UNION {{ud \in [K -> UNION {MappingValues(k) : k \in K}] :
               \A k \in K : ud[k] \in MappingValues(k)} : K \in SUBSET KeySet}

InitBuilder ==
    /\ pc = "calling"
    /\ req = [method |-> "PUT", query |-> Undefined, authorization |-> Undefined]
    /\ fields = NoFields
    /\ files = [avatar |-> NoAvatar]
    /\ wallet \in {WalletA, <<"z">>}
    /\ userData \in Mappings
    /\ res = NoResponse
    /\ db = InitDb
    /\ tmp = {}
    /\ assets = {}
    /\ sql = <<>>
    /\ log = <<>>
    /\ img = IdleImage
    /\ peer = NoPeer

\* updateUser(wallet, userData): the statement is built and handed to
\* pool.query.
CallUpdateUser ==
    /\ pc = "calling"
    /\ pc' = "updating"
    /\ sql' = Append(sql, UpdateStatement(wallet, userData))
    /\ log' = Append(log, "UPDATE")
    /\ UNCHANGED <<req, fields, files, wallet, userData, res, db, tmp, assets, img, peer>>

NextBuilder ==
    \/ CallUpdateUser
    \/ UpdateFails
    \/ UpdateDone

SpecBuilder == InitBuilder /\ [][NextBuilder]_vars

(***************************************************************************)
(* Properties.                                                             *)
(***************************************************************************)
InLog(e) == \E i \in 1..Len(log) : log[i] = e

UpdateCount == Cardinality({i \in 1..Len(log) : log[i] = "UPDATE"})

\* Only a pattern at the very start of the string is removed.
StripLeading(s, c) ==
    IF Len(s) > 0 /\ s[1] = c THEN Tail(s) ELSE s

\* The identity as the specification words it: query if non-empty, else the
\* header with a leading 'Bearer ' stripped if that is non-empty, else the
\* form field.
StatedIdentity(q, h, f) ==
    IF Truthy(q) THEN q
    ELSE IF h # Undefined /\ Truthy(StripLeading(h, BEARER)) THEN StripLeading(h, BEARER)
    ELSE f

\* C1: once the form is parsed, the resolved identity is the query value if
\* non-empty, else the Authorization header with a leading 'Bearer ' stripped
\* if that is non-empty, else the form field; and if none is non-empty the
\* request ends with 400 and no existence query, upload or UPDATE is made.
C1_IdentityPriority ==
    InLog("parsed") =>
        LET id == StatedIdentity(req.query, req.authorization, fields.wallet)
        IN  /\ Truthy(id) => wallet = id
            /\ ~Truthy(id) =>
                  /\ pc = "done"
                  /\ res.status = 400
                  /\ res.error = "Wallet address is required"
                  /\ ~InLog("SELECT") /\ ~InLog("uploadImage") /\ ~InLog("UPDATE")

\* C2: when an avatar part is present and the upload was attempted, the
\* transient file is gone by the time the handler has responded, whether the
\* upload succeeded or failed (a deletion that itself fails is left aside).
C2_TempReleasedAfterUpload ==
    (pc = "done" /\ HasAvatar(files) /\ InLog("uploadImage")
        /\ (InLog("uploaded") \/ InLog("uploadFailed"))
        /\ ~InLog("unlinkFailed"))
        => AvatarFilePath(files) \notin tmp

\* C3: whenever form decoding created a transient avatar file, that file is
\* gone by the time the handler has responded, on every exit path (a
\* deletion that itself fails is left aside).
C3_TempReleasedOnEveryExit ==
    (pc = "done" /\ HasAvatar(files) /\ ~InLog("unlinkFailed"))
        => AvatarFilePath(files) \notin tmp

NoUploadNoUpdate == ~InLog("uploadImage") /\ ~InLog("UPDATE") /\ sql = <<>>

InvalidSocialLinks ==
    res.status = 400 /\ res.error = "Invalid social links format"

\* C4 as stated: a socialLinks field that is present and is not valid JSON
\* makes the request fail with 400, with no upload and no UPDATE, whatever
\* else the request holds.
C4_AsStated ==
    (pc = "done" /\ fields.socialLinks # Undefined
        /\ JSONParse(fields.socialLinks) = JsonError)
        => (res.status = 400 /\ NoUploadNoUpdate)

\* C4, amended: a socialLinks field with a non-empty text that is not valid
\* JSON never lets an upload be attempted or an UPDATE be executed; and every
\* such request that gets as far as the field set (the existence query found
\* the profile) ends with 400 (InvalidSocialLinks), whatever other fields or
\* avatar file it holds.
C4_MalformedSocialLinks ==
    (Truthy(fields.socialLinks) /\ JSONParse(fields.socialLinks) = JsonError)
        => /\ NoUploadNoUpdate
           /\ db = InitDb
           /\ InLog("found") => (pc = "done" /\ InvalidSocialLinks)

C4_Witness ==
    /\ pc = "done"
    /\ fields.socialLinks = TextBad
    /\ InvalidSocialLinks
    /\ HasAvatar(files)
    /\ Truthy(fields.username)

\* C5: a socialLinks field that decodes but is not an array makes the
\* request (one whose profile was found) fail with 400, with no upload and
\* no UPDATE, even when other fields are supplied.
C5_NonArraySocialLinks ==
    (pc = "done" /\ InLog("found") /\ Truthy(fields.socialLinks)
        /\ JSONParse(fields.socialLinks) # JsonError
        /\ ~IsArray(JSONParse(fields.socialLinks)))
        => (res.status = 400 /\ NoUploadNoUpdate)

\* No recognized field has a value and there is no avatar part.
NothingSupplied ==
    /\ \A k \in ScalarKeys \cup {"socialLinks"} : ~Truthy(fields[k])
    /\ ~HasAvatar(files)

\* C6: a request whose identity resolves to an existing profile and that
\* supplies no recognized field with a value and no avatar file ends with
\* 400 (NoFieldsProvided), and the UPDATE is never executed.
C6_NoFieldsProvided ==
    (InLog("found") /\ NothingSupplied)
        => /\ pc = "done"
           /\ res.status = 400
           /\ res.error = "No update data provided"
           /\ ~InLog("UPDATE") /\ sql = <<>>
           /\ db = InitDb

C6_Witness ==
    /\ pc = "done"
    /\ InLog("found")
    /\ NothingSupplied
    /\ Truthy(fields.nickname)
    /\ fields.username = EmptyStr
    /\ res.status = 400

\* C7: when the avatar part is present and the upload fails, the handler
\* answers 500 (UploadFailed), the UPDATE is never executed and no column of
\* any row changes, whatever other fields the request holds.
C7_UploadFailureAborts ==
    InLog("uploadFailed")
        => /\ pc = "done"
           /\ res.status = 500
           /\ res.error = "Failed to upload avatar"
           /\ ~InLog("UPDATE") /\ sql = <<>>
           /\ db = InitDb

C7_Witness ==
    /\ pc = "done"
    /\ InLog("uploadFailed")
    /\ HasAvatar(files)
    /\ Truthy(fields.username)
    /\ Truthy(fields.bio)
    /\ res.status = 500

\* C8: the UPDATE is executed at most once, and only as the last side
\* effect: nothing but the response follows it in the log; a 200 is sent only
\* after exactly one execution; and a non-200 outcome that has executed it
\* is the persistence failure (500, table untouched).
C8_PersistOnceAtEnd ==
    /\ UpdateCount <= 1
    /\ Len(sql) = UpdateCount
    /\ \A i \in 1..Len(log) :
          log[i] = "UPDATE" =>
              (i = Len(log) \/ (i = Len(log) - 1 /\ log[Len(log)] = "respond"))
    /\ (pc = "done" /\ res.status = 200) => UpdateCount = 1
    /\ (pc = "done" /\ res.status # 200 /\ UpdateCount # 0)
          => (res.status = 500 /\ res.error = "Failed to update user" /\ db = InitDb)
    /\ pc = "done" => log[Len(log)] = "respond"

C8_Witness ==
    /\ pc = "done"
    /\ res.status = 200
    /\ log = <<"parse", "parsed", "SELECT", "found", "uploadImage", "uploaded",
               "unlink", "UPDATE", "respond">>

\* The recognized text fields and socialLinks that a request supplies with a
\* value.
Supplied == {k \in ScalarKeys \cup {"socialLinks"} : Truthy(fields[k])}

\* C9: in a successful request without an avatar part, the executed update
\* assigns exactly the columns of the supplied fields plus updated_at, and
\* every other column of the target row, and every other row, is unchanged.
C9_ExactColumns ==
    (pc = "done" /\ res.status = 200 /\ ~HasAvatar(files))
        => LET assigned == {ColumnOf(k) : k \in Supplied} \cup {"updated_at"}
           IN  /\ AssignedColumns(IssuedStatement) = assigned
               /\ \A w \in DOMAIN db : \A c \in Columns :
                     IF w = wallet /\ c \in assigned
                     THEN c = "updated_at" => db[w][c] = Now
                     ELSE db[w][c] = InitDb[w][c]

\* C10: for every URL the store returned for an asset
\* (.../upload/<version>/<id segments>/<name>.<ext>), deleteImage derives the
\* store's own public id, that is the segments after the version segment
\* joined with '/', with only the extension of the last one removed, and
\* hands exactly that id to the remote destroy.
C10_DeleteRoundTrip ==
    (img.stored # <<>> /\ img.pc # "called") => img.destroyed = img.stored

C10_Witness ==
    /\ img.pc = "done"
    /\ img.url = SecureUrl(<<"v2">>,
                           Join(<<Folder, <<UPLOAD>>, <<"n", ".", "m">>>>, "/"),
                           <<"png">>)
    /\ img.destroyed = <<Join(<<Folder, <<UPLOAD>>, <<"n", ".", "m">>>>, "/")>>

\* C11: deleteImage fails with InvalidReference, without calling destroy,
\* when the URL has no 'upload' segment or too few segments after it;
\* otherwise it calls destroy and fails with DeleteFailed when that call
\* errors; the caller can tell the two failures apart by the error thrown.
C11_DeleteErrorsDistinct ==
    img.pc = "failed" =>
        /\ img.destroyed = <<>> => img.error = "Invalid Cloudinary URL"
        /\ img.destroyed # <<>> => img.error = "Failed to delete image from Cloudinary"

\* Every statement handed to pool.query so far, by either request.
AllStatements == {sql[i] : i \in 1..Len(sql)} \cup {peer.sql[i] : i \in 1..Len(peer.sql)}

\* C12: whatever the requests have done so far, every row still has the
\* wallet it had at the start; no statement assigns the wallet column; and
\* a wallet form field never becomes a key of the field set to update.
C12_WalletImmutable ==
    /\ \A w \in DOMAIN db : db[w].wallet = InitDb[w].wallet /\ db[w].id = InitDb[w].id
    /\ \A stmt \in AllStatements :
          /\ "wallet" \notin AssignedColumns(stmt)
          /\ "id" \notin AssignedColumns(stmt)
    /\ "wallet" \notin DOMAIN userData
    /\ "wallet" \notin DOMAIN peer.userData

C12_Witness ==
    /\ pc = "done" /\ res.status = 200
    /\ req.query = Undefined /\ fields.wallet = WalletB /\ wallet = WalletB
    /\ peer.pc = "done" /\ peer.res.status = 200 /\ peer.wallet = WalletB
    /\ WalletB \in DOMAIN db
    /\ db[WalletB].wallet = WalletB
    /\ db[WalletB].username = <<"x">>
    /\ db[WalletB].bio = <<"y">>

\* C13: a request whose method is neither PUT nor PATCH is answered 405 and
\* nothing else happens: no form is parsed (no fields, no transient files),
\* no query is issued, no upload is attempted, the table is as it was.
C13_MethodNotAllowed ==
    (req.method # "PUT" /\ req.method # "PATCH")
        => /\ pc \in {"start", "done"}
           /\ pc = "done" =>
                 /\ res.status = 405
                 /\ res.error = "Method not allowed"
                 /\ log = <<"respond">>
           /\ pc = "start" => log = <<>>
           /\ fields = NoFields /\ ~HasAvatar(files) /\ tmp = {}
           /\ sql = <<>> /\ assets = {} /\ db = InitDb

C13_Witness ==
    /\ req.method = "GET"
    /\ req.query = WalletA
    /\ pc = "done"
    /\ res.status = 405

\* What the handler has done by the time the field set is complete.
StepsToFieldSet == <<"parse", "parsed", "SELECT", "found">>

StepsToPersist ==
    StepsToFieldSet
        \o (IF HasAvatar(files) THEN <<"uploadImage", "uploaded", "unlink">> ELSE <<>>)

\* The field set has nothing in it: no text field with a value, no
\* socialLinks that decodes to an array, no avatar part.
EmptyFieldSet ==
    /\ \A k \in ScalarKeys : ~Truthy(fields[k])
    /\ ~(Truthy(fields.socialLinks) /\ IsArray(JSONParse(fields.socialLinks)))
    /\ ~HasAvatar(files)

\* The first failing step of a finished request, read off its inputs and off
\* what its collaborators answered, in the order method, ParseForm,
\* ResolveIdentity, VerifyExists, BuildFieldSet, MaybeUploadAvatar,
\* EnsureNonEmpty, Persist: its status, and the steps that ran.
StatedOutcome ==
    IF req.method # "PUT" /\ req.method # "PATCH"
    THEN [status |-> 405, steps |-> <<>>]
    ELSE IF ~InLog("parsed")
    THEN [status |-> 500, steps |-> <<"parse">>]
    ELSE IF ~Truthy(wallet)
    THEN [status |-> 400, steps |-> <<"parse", "parsed">>]
    ELSE IF InLog("notFound")
    THEN [status |-> 404, steps |-> <<"parse", "parsed", "SELECT", "notFound">>]
    ELSE IF ~InLog("found")
    THEN [status |-> 500, steps |-> <<"parse", "parsed", "SELECT">>]
    ELSE IF Truthy(fields.socialLinks) /\ JSONParse(fields.socialLinks) = JsonError
    THEN [status |-> 400, steps |-> StepsToFieldSet]
    ELSE IF HasAvatar(files) /\ InLog("uploadFailed")
    THEN [status |-> 500, steps |-> StepsToFieldSet \o <<"uploadImage", "uploadFailed">>]
    ELSE IF HasAvatar(files) /\ InLog("unlinkFailed")
    THEN [status |-> 500,
          steps |-> StepsToFieldSet \o <<"uploadImage", "uploaded", "unlinkFailed">>]
    ELSE IF EmptyFieldSet
    THEN [status |-> 400, steps |-> StepsToPersist]
    ELSE IF db[wallet].updated_at # Now
    THEN [status |-> 500, steps |-> StepsToPersist \o <<"UPDATE">>]
    ELSE [status |-> 200, steps |-> StepsToPersist \o <<"UPDATE">>]

PresentKeys == SelectSeq(UpdatableKeys, LAMBDA k : Has(userData, k))

\* C15: updateUser emits one clause per present field in the order username,
\* email, avatar, bio, streamKey, socialLinks, then the timestamp clause; the
\* clauses use $2, $3, ... without gap or repeat; $1 is the identity key; the
\* value list has (present fields + 1) entries; and the value at each
\* placeholder is that of the clause's field, socialLinks as serialized text.
C15_ClausesAndPlaceholders ==
    sql # <<>> =>
        LET stmt == sql[1]
            n == Len(PresentKeys)
        IN  /\ Len(sql) = 1
            /\ Len(stmt.setClauses) = n + 1
            /\ Len(stmt.values) = n + 1
            /\ stmt.values[1] = wallet
            /\ stmt.setClauses[n + 1] = [col |-> "updated_at", param |-> 0]
            /\ \A i \in 1..n :
                  LET key == PresentKeys[i]
                  IN  /\ stmt.setClauses[i].col =
                            (IF key = "streamKey" THEN "streamkey" ELSE key)
                      /\ stmt.setClauses[i].param = i + 1
                      /\ stmt.values[i + 1] =
                            (IF key = "socialLinks" THEN JSONStringify(userData[key])
                             ELSE userData[key])

C15_Witness ==
    /\ pc = "updating"
    /\ Len(PresentKeys) = 6
    /\ userData.socialLinks = JsonLinkArray
    /\ sql[1].values[7] = TextLinkArray
    /\ sql[1].setClauses[5] = [col |-> "streamkey", param |-> 6]

\* C16: when the mapping holds no field with a defined value, updateUser
\* fails without executing a statement: no UPDATE whose only assignment is
\* the timestamp is ever issued.
C16_BuilderRejectsEmpty ==
    Len(PresentKeys) = 0 => (sql = <<>> /\ ~InLog("UPDATE"))

\* An asset of the remote store whose URL no profile row holds as avatar.
Orphans ==
    {id \in assets :
        \A w \in DOMAIN db : db[w].avatar # SecureUrl(AssetVersion, id, AssetFormat)}

\* C17: a finished request leaves an orphaned asset only when its upload
\* succeeded and its persistence step then failed with 500; there is no
\* other way a request creates an orphan.
C17_OrphanOnlyOnPersistFailure ==
    (pc = "done" /\ Orphans # {}) =>
        /\ InLog("uploaded")
        /\ InLog("UPDATE")
        /\ res.status = 500
        /\ res.error = "Failed to update user"

\* C18: every 200 response carries the updated row of the resolved identity,
\* also when another client removed the row between the existence query and
\* the UPDATE: a 200 never goes out without a user row.
C18_OkCarriesRow ==
    (pc = "done" /\ res.status = 200) =>
        /\ Len(res.user) = 1
        /\ res.user[1].wallet = wallet

\* C19: 500 'Failed to upload avatar' is sent only when the upload to the
\* image store itself failed; after a successful upload the request goes on
\* to the persistence step, whatever happens to the local file deletion.
C19_UploadErrorOnlyOnUploadFailure ==
    /\ (pc = "done" /\ res.error = "Failed to upload avatar") => ~InLog("uploaded")
    /\ (pc = "done" /\ InLog("uploaded")) => InLog("UPDATE")

\* The columns a statement assigns from a bound value.
BoundColumns(stmt) == AssignedColumns(stmt) \ {"updated_at"}

\* The value a statement binds to a column.
ValueFor(stmt, c) ==
    LET i == CHOOSE i \in 1..Len(stmt.setClauses) : stmt.setClauses[i].col = c
    IN  stmt.values[stmt.setClauses[i].param]

\* Both requests updated the same identity's row and were answered 200.
BothUpdated ==
    /\ pc = "done" /\ res.status = 200 /\ Len(res.user) = 1
    /\ peer.pc = "done" /\ peer.res.status = 200 /\ Len(peer.res.user) = 1
    /\ wallet = peer.wallet
    /\ wallet \in DOMAIN db

\* C20: after two successful concurrent updates of one identity, in every
\* interleaving, a column only one request supplied holds that request's
\* value (no lost update), a column both supplied holds the value of one of
\* the two, and a column neither supplied is what it was.
C20_NoLostUpdate ==
    BothUpdated =>
        LET mine == sql[1]
            theirs == peer.sql[1]
            row == db[wallet]
        IN  \A c \in Columns \ {"updated_at"} :
              /\ (c \in BoundColumns(mine) \ BoundColumns(theirs))
                    => row[c] = ValueFor(mine, c)
              /\ (c \in BoundColumns(theirs) \ BoundColumns(mine))
                    => row[c] = ValueFor(theirs, c)
              /\ (c \in BoundColumns(mine) \cap BoundColumns(theirs))
                    => row[c] \in {ValueFor(mine, c), ValueFor(theirs, c)}
              /\ (c \notin BoundColumns(mine) \cup BoundColumns(theirs))
                    => row[c] = InitDb[wallet][c]

C20_Witness ==
    /\ BothUpdated
    /\ wallet = WalletA
    /\ BoundColumns(sql[1]) = {"bio", ColumnOf("socialLinks")}
    /\ BoundColumns(peer.sql[1]) = {"username", "bio"}
    /\ db[WalletA].username = <<"y">>
    /\ db[WalletA].bio = <<"x">>
    /\ db[WalletA][ColumnOf("socialLinks")] = TextLinkArray
    /\ peer.res.user[1].bio = <<"y">>
====
